---- MODULE Spec2Model ----
(***************************************************************************)
(* Model of the summarize-bot backend (src/app.py): the markdown section   *)
(* parser parse_response_sections, run line by line, and the /api/chat     *)
(* request handler with its persistence and notification steps.            *)
(*                                                                         *)
(* Text is modelled as a sequence of characters (one-character strings),   *)
(* so that strip, lstrip, lower, split, join, startswith, endswith and the *)
(* substring test are computed the way Python computes them.               *)
(***************************************************************************)
EXTENDS Naturals, Sequences, FiniteSets

VARIABLES
    reply,            \* parse_response_sections: the argument (None or text)
    pc,               \* parse_response_sections: position in the function
    lines,            \* reply.split('\n')
    idx,              \* 1-based index of the next element of lines
    current_section,  \* the active section, or NoSection
    sections,         \* the three accumulators
    result,           \* the returned triple
    src,              \* history: per section and entry, the line indices it came from
    dropped,          \* history: indices of lines processed with no active section
    cpc,              \* chat: position in the handler
    payload,          \* chat: the request body (transcript, email)
    gen,              \* chat: what model.generate_content produced
    chat_reply,       \* chat: the joined reply text
    parsed,           \* chat: the triple returned by parse_response_sections
    db,               \* chat: save_to_database's local state
    email_sent,       \* chat: the email_sent local
    response,         \* chat: the HTTP response
    log               \* chat: order in which the pipeline's steps completed

pvars == <<reply, pc, lines, idx, current_section, sections, result, src, dropped>>
cvars == <<cpc, payload, gen, chat_reply, parsed, db, email_sent, response, log>>
vars == <<reply, pc, lines, idx, current_section, sections, result, src, dropped,
          cpc, payload, gen, chat_reply, parsed, db, email_sent, response, log>>

(***************************************************************************)
(* Bounds of the model                                                     *)
(***************************************************************************)
\* largest number of lines of a reply drawn from the whole vocabulary
MaxLines == 3
\* largest number of lines of a reply drawn from the core vocabulary
MaxLongLines == 5

(***************************************************************************)
(* Python values                                                           *)
(***************************************************************************)
\* Python's None where a str is expected: a one-element tuple that is no text
None == <<"<None>">>
EmptyStr == <<>>
NoSection == "None"
Sections == {"summary", "key_decisions", "action_items"}

\* characters str.strip() removes
Whitespace == {" ", "\t", "\n", "\r", "\f"}
\* characters of line.lstrip('-*•'); "u2022" stands for the one character U+2022
BulletChars == {"-", "*", "u2022"}
Digits == {"0", "1", "2", "3", "4", "5", "6", "7", "8", "9"}
SentenceEnd == {".", "!", "?", ":"}
NL == "\n"

UpperAlpha ==
    <<"A", "B", "C", "D", "E", "F", "G", "H", "I", "J", "K", "L", "M",
      "N", "O", "P", "Q", "R", "S", "T", "U", "V", "W", "X", "Y", "Z">>
LowerAlpha ==
    <<"a", "b", "c", "d", "e", "f", "g", "h", "i", "j", "k", "l", "m",
      "n", "o", "p", "q", "r", "s", "t", "u", "v", "w", "x", "y", "z">>

\* str.lower() on one character
LowerOf == [c \in {UpperAlpha[i] : i \in 1..26} |->
               LowerAlpha[CHOOSE i \in 1..26 : UpperAlpha[i] = c]]
LowerChar(c) == IF c \in DOMAIN LowerOf THEN LowerOf[c] ELSE c

\* str.lower()
Lower(s) == [i \in 1..Len(s) |-> LowerChar(s[i])]

\* str.lstrip(chars)
RECURSIVE LStripChars(_, _)
LStripChars(s, chars) ==
    IF s # <<>> /\ Head(s) \in chars THEN LStripChars(Tail(s), chars) ELSE s

\* str.rstrip(chars)
RECURSIVE RStripChars(_, _)
RStripChars(s, chars) ==
    IF s # <<>> /\ s[Len(s)] \in chars
    THEN RStripChars(SubSeq(s, 1, Len(s) - 1), chars)
    ELSE s

\* str.strip()
Strip(s) == RStripChars(LStripChars(s, Whitespace), Whitespace)

\* str.startswith(prefix)
StartsWith(s, p) == Len(p) <= Len(s) /\ SubSeq(s, 1, Len(p)) = p

\* sub in s
Contains(s, sub) ==
    \E i \in 1..(Len(s) + 1) :
        i + Len(sub) - 1 <= Len(s) /\ SubSeq(s, i, i + Len(sub) - 1) = sub

\* position of the first c in s, 0 when there is none
FirstIndex(s, c) ==
    IF \E i \in 1..Len(s) : s[i] = c
    THEN CHOOSE i \in 1..Len(s) : s[i] = c /\ \A j \in 1..(i - 1) : s[j] # c
    ELSE 0

\* str.split(sep): the pieces between the occurrences of the character sep
RECURSIVE Split(_, _)
Split(s, sep) ==
    LET k == FirstIndex(s, sep)
    IN  IF k = 0 THEN <<s>>
        ELSE <<SubSeq(s, 1, k - 1)>> \o Split(SubSeq(s, k + 1, Len(s)), sep)

\* str.split(sep, 1)
SplitOnce(s, sep) ==
    LET k == FirstIndex(s, sep)
    IN  IF k = 0 THEN <<s>>
        ELSE <<SubSeq(s, 1, k - 1), SubSeq(s, k + 1, Len(s))>>

\* sep.join(parts)
RECURSIVE Join(_, _)
Join(parts, sep) ==
    IF parts = <<>> THEN <<>>
    ELSE IF Len(parts) = 1 THEN parts[1]
    ELSE parts[1] \o <<sep>> \o Join(Tail(parts), sep)

(***************************************************************************)
(* Texts of the model                                                      *)
(***************************************************************************)
\* '## Summary'
L_HSummary ==
    <<"#", "#", " ", "S", "u", "m", "m", "a", "r", "y">>
\* 'Key Decisions:'
L_HKeyDecisions ==
    <<"K", "e", "y", " ", "D", "e", "c", "i", "s", "i", "o", "n", "s", ":">>
\* '### Action Items'
L_HActionItems ==
    <<"#", "#", "#", " ", "A", "c", "t", "i", "o", "n", " ", "I", "t", "e", "m", "s">>
\* '## Notes'
L_HNotes ==
    <<"#", "#", " ", "N", "o", "t", "e", "s">>
\* ' '
L_Blank ==
    <<" ">>
\* '- Review key'
L_BulletOpen ==
    <<"-", " ", "R", "e", "v", "i", "e", "w", " ", "k", "e", "y">>
\* 'decision for Q3'
L_PlainCont ==
    <<"d", "e", "c", "i", "s", "i", "o", "n", " ", "f", "o", "r", " ", "Q", "3">>
\* 'None noted.'
L_PlainSentinel ==
    <<"N", "o", "n", "e", " ", "n", "o", "t", "e", "d", ".">>
\* '* N/A '
L_BulletSentinel ==
    <<"*", " ", "N", "/", "A", " ">>
\* '1. Ship it.'
L_NumItem ==
    <<"1", ".", " ", "S", "h", "i", "p", " ", "i", "t", ".">>
\* '3 people attended.'
L_ThreePeople ==
    <<"3", " ", "p", "e", "o", "p", "l", "e", " ", "a", "t", "t", "e", "n", "d", "e", "d", ".">>
\* '3.5 hours'
L_Decimal ==
    <<"3", ".", "5", " ", "h", "o", "u", "r", "s">>
\* '- The key decision was X'
L_BulletKeyDecision ==
    <<"-", " ", "T", "h", "e", " ", "k", "e", "y", " ", "d", "e", "c", "i", "s", "i", "o", "n", " ", "w", "a", "s", " ", "X">>
\* '\u2022 Agreed!\r'
L_BulletDone ==
    <<"u2022", " ", "A", "g", "r", "e", "e", "d", "!", "\r">>
\* '12. na'
L_NumSentinel ==
    <<"1", "2", ".", " ", "n", "a">>

S_summary == <<"s", "u", "m", "m", "a", "r", "y">>
S_key == <<"k", "e", "y">>
S_decision == <<"d", "e", "c", "i", "s", "i", "o", "n">>
S_action == <<"a", "c", "t", "i", "o", "n">>
S_none_noted == <<"n", "o", "n", "e", " ", "n", "o", "t", "e", "d", ".">>
S_none_dot == <<"n", "o", "n", "e", ".">>
S_n_a == <<"n", "/", "a">>
S_na == <<"n", "a">>
S_none == <<"n", "o", "n", "e">>

Sentinels == {S_none_noted, S_none_dot, S_n_a, S_na, S_none}

\* the lines a reply is built from
Vocab ==
    {L_HSummary, L_HKeyDecisions, L_HActionItems, L_HNotes, L_Blank,
     L_BulletOpen, L_PlainCont, L_PlainSentinel, L_BulletSentinel, L_NumItem,
     L_ThreePeople, L_Decimal, L_BulletKeyDecision, L_BulletDone, L_NumSentinel}

\* the lines of the longer replies, which revisit a section
CoreVocab == {L_HSummary, L_HKeyDecisions, L_BulletOpen, L_NumItem}

\* the replies: None, the empty string, up to MaxLines lines of Vocab joined
\* by '\n', and up to MaxLongLines lines of CoreVocab
Replies ==
    {None, EmptyStr}
    \cup { Join(ls, NL) : ls \in UNION { [1..n -> Vocab] : n \in 1..MaxLines } }
    \cup { Join(ls, NL) :
             ls \in UNION { [1..n -> CoreVocab] : n \in (MaxLines + 1)..MaxLongLines } }

(***************************************************************************)
(* parse_response_sections                                                 *)
(***************************************************************************)
EmptySections == [s \in Sections |-> <<>>]

\* faulty variant for C8: `if reply == ""`, which lets None through to split
IsFalsyMissesNone(r) == r = EmptyStr
\* `not reply`
IsFalsy(r) == r = None \/ r = EmptyStr

\* header_text = line_lower.lstrip('#').strip()
HeaderText(line) == Strip(LStripChars(Lower(line), {"#"}))

\* faulty variant for C10: only lines starting with '#' are taken for headers
HeaderKindNeedsHash(line) ==
    LET header_text == HeaderText(line)
    IN  IF ~StartsWith(line, <<"#">>) THEN "content"
        ELSE IF header_text = S_summary THEN "summary"
        ELSE IF Contains(header_text, S_key) /\ Contains(header_text, S_decision)
             THEN "key_decisions"
        ELSE IF StartsWith(header_text, S_action) THEN "action_items"
        ELSE "unrecognized"
\* the if/elif chain over header_text, for a stripped non-empty line
HeaderKind(line) ==
    LET header_text == HeaderText(line)
    IN  IF header_text = S_summary THEN "summary"
        ELSE IF Contains(header_text, S_key) /\ Contains(header_text, S_decision)
             THEN "key_decisions"
        ELSE IF StartsWith(header_text, S_action) THEN "action_items"
        ELSE IF StartsWith(line, <<"#">>) THEN "unrecognized"
        ELSE "content"

\* content and content.lower() not in ['none noted.', 'none.', 'n/a', 'na', 'none']
Storable(content) == content # <<>> /\ Lower(content) \notin Sentinels

\* line.startswith('-') or line.startswith('*') or line.startswith('•')
IsBullet(line) == line # <<>> /\ line[1] \in BulletChars

\* faulty variant for C7: '.' looked for in the whole line
IsNumberedWholeLine(line) ==
    /\ line # <<>>
    /\ line[1] \in Digits
    /\ \E i \in 1..Len(line) : line[i] = "."
\* line[0].isdigit() and '.' in line[:3]
IsNumbered(line) ==
    /\ line # <<>>
    /\ line[1] \in Digits
    /\ \E i \in 1..3 : i <= Len(line) /\ line[i] = "."

\* faulty variant for C3: every plain line is merged into the last entry
EndsSentenceNever(item) == FALSE
\* last_item.rstrip().endswith(('.', '!', '?', ':'))
EndsSentence(item) ==
    LET r == RStripChars(item, Whitespace)
    IN  r # <<>> /\ r[Len(r)] \in SentenceEnd

\* faulty variant for C6: insert(0, content)
AppendEntryAtFront(acc, content) == <<content>> \o acc
\* sections[current_section].append(content)
AppendEntry(acc, content) == Append(acc, content)

\* sections[current_section][-1] += " " + line
ExtendLast(acc, line) == [acc EXCEPT ![Len(acc)] = @ \o <<" ">> \o line]

\* the bullet / numbered / continuation / first-item chain on one accumulator
ContentStep(acc, line) ==
    IF IsBullet(line)
    THEN LET content == Strip(LStripChars(line, BulletChars))
         IN  IF Storable(content) THEN AppendEntry(acc, content) ELSE acc
    ELSE IF IsNumbered(line)
    THEN LET parts == SplitOnce(line, ".")
         IN  IF Len(parts) = 2
             THEN LET content == Strip(parts[2])
                  IN  IF Storable(content) THEN AppendEntry(acc, content) ELSE acc
             ELSE acc
    ELSE IF acc # <<>>
    THEN LET last_item == acc[Len(acc)]
         IN  IF last_item # <<>> /\ ~EndsSentence(last_item)
             THEN ExtendLast(acc, line)
             ELSE IF Storable(line) THEN AppendEntry(acc, line) ELSE acc
    ELSE IF Storable(line) THEN AppendEntry(acc, line) ELSE acc

\* faulty variant for C2: content outside any section goes to the summary
DispatchDefaultsToSummary(st, line) ==
    LET c == IF st.cur = NoSection THEN "summary" ELSE st.cur
    IN  [st EXCEPT !.sec[c] = ContentStep(@, line)]
\* content is processed only in a recognized section
Dispatch(st, line) ==
    IF st.cur = NoSection THEN st
    ELSE [st EXCEPT !.sec[st.cur] = ContentStep(@, line)]

\* faulty variant for C9: a recognized header empties its accumulator
ProcessLineClearsOnHeader(st, original_line) ==
    LET line == Strip(original_line)
    IN  IF line = <<>> THEN st
        ELSE LET kind == HeaderKind(line)
             IN  IF kind \in Sections
                 THEN [st EXCEPT !.cur = kind, !.sec[kind] = <<>>]
                 ELSE IF kind = "unrecognized" THEN [st EXCEPT !.cur = NoSection]
                 ELSE Dispatch(st, line)
\* one iteration of `for line in lines` on the cursor st = [cur, sec]
ProcessLine(st, original_line) ==
    LET line == Strip(original_line)
    IN  IF line = <<>> THEN st
        ELSE LET kind == HeaderKind(line)
             IN  IF kind \in Sections THEN [st EXCEPT !.cur = kind]
                 ELSE IF kind = "unrecognized" THEN [st EXCEPT !.cur = NoSection]
                 ELSE Dispatch(st, line)

\* '\n'.join(sections[s]) if sections[s] else None
JoinField(acc) == IF acc # <<>> THEN Join(acc, NL) ELSE None

RECURSIVE RunLines(_, _)
RunLines(st, ls) ==
    IF ls = <<>> THEN st ELSE RunLines(ProcessLine(st, Head(ls)), Tail(ls))

\* the whole function on a str argument, as the handler calls it
ParseResponseSections(r) ==
    IF IsFalsy(r) THEN [s \in Sections |-> None]
    ELSE LET st == RunLines([cur |-> NoSection, sec |-> EmptySections], Split(r, NL))
         IN  [s \in Sections |-> JoinField(st.sec[s])]

Idle == <<>>

NoDb == [connection |-> "none", cursor |-> "unbound", raised |-> "none", ret |-> "none"]
NoGen == [kind |-> "none", parts |-> <<>>]
NoResponse == [status |-> 0, reply |-> None, email_sent |-> FALSE, error |-> "none"]

ChatIdle ==
    /\ cpc = "idle"
    /\ payload = Idle
    /\ gen = NoGen
    /\ chat_reply = None
    /\ parsed = Idle
    /\ db = NoDb
    /\ email_sent = FALSE
    /\ response = NoResponse
    /\ log = <<>>

Init ==
    /\ reply \in Replies
    /\ pc = "call"
    /\ lines = <<>>
    /\ idx = 1
    /\ current_section = NoSection
    /\ sections = EmptySections
    /\ result = Idle
    /\ src = EmptySections
    /\ dropped = {}
    /\ ChatIdle

\* lines 105-116: the accumulators, the None/empty check, the split
Enter ==
    /\ pc = "call"
    /\ IF IsFalsy(reply)
       THEN /\ pc' = "done"
            /\ result' = [s \in Sections |-> None]
            /\ lines' = lines
       ELSE IF reply = None
       THEN /\ pc' = "raised"    \* None.split: AttributeError
            /\ result' = result
            /\ lines' = lines
       ELSE /\ pc' = "loop"
            /\ result' = result
            /\ lines' = Split(reply, NL)
    /\ UNCHANGED <<reply, idx, current_section, sections, src, dropped>>
    /\ UNCHANGED cvars

\* history of which line each entry came from, read off the change of one
\* accumulator (old to new) made while line i was processed
SrcOfAccumulator(old, new, h, i) ==
    IF new = old THEN h
    ELSE IF Len(new) = Len(old)
    THEN [k \in 1..Len(new) |-> IF new[k] # old[k] THEN Append(h[k], i) ELSE h[k]]
    ELSE IF Len(new) = Len(old) + 1
    THEN LET fits(p) == /\ \A q \in 1..(p - 1) : new[q] = old[q]
                        /\ \A q \in p..Len(old) : new[q + 1] = old[q]
             P == {p \in 1..Len(new) : fits(p)}
         IN  IF P = {} THEN [k \in 1..Len(new) |-> <<i>>]
             ELSE LET p == CHOOSE x \in P : \A y \in P : y <= x
                  IN  [k \in 1..Len(new) |->
                          IF k < p THEN h[k] ELSE IF k = p THEN <<i>> ELSE h[k - 1]]
    ELSE [k \in 1..Len(new) |-> <<i>>]

\* lines 118-183: one iteration of the loop
Step ==
    /\ pc = "loop"
    /\ idx <= Len(lines)
    /\ \E st \in {ProcessLine([cur |-> current_section, sec |-> sections], lines[idx])} :
           /\ current_section' = st.cur
           /\ sections' = st.sec
           /\ src' = [s \in Sections |->
                        SrcOfAccumulator(sections[s], st.sec[s], src[s], idx)]
           /\ dropped' = IF current_section = NoSection /\ st.cur = NoSection
                            /\ Strip(lines[idx]) # <<>>
                         THEN dropped \cup {idx} ELSE dropped
    /\ idx' = idx + 1
    /\ UNCHANGED <<reply, pc, lines, result>>
    /\ UNCHANGED cvars

\* lines 185-190: join and return
Return ==
    /\ pc = "loop"
    /\ idx > Len(lines)
    /\ result' = [s \in Sections |-> JoinField(sections[s])]
    /\ pc' = "done"
    /\ UNCHANGED <<reply, lines, idx, current_section, sections, src, dropped>>
    /\ UNCHANGED cvars

Next == Enter \/ Step \/ Return

Spec == Init /\ [][Next]_vars

(***************************************************************************)
(* POST /api/chat                                                          *)
(***************************************************************************)
\* a request field: absent, blank, or text
FieldValues == {None, <<" ">>, <<"t">>}
Payloads == [transcript : FieldValues, email : FieldValues]

\* payload.get(k, "").strip() if payload.get(k) else ""
StrippedField(v) == IF v = None \/ v = EmptyStr THEN EmptyStr ELSE Strip(v)

\* the texts of the parts of the first usable candidate
ReplyParts == { <<L_HSummary, L_BulletOpen>>, <<L_HSummary \o <<NL>> \o L_NumItem>>, <<L_Blank>> }

\* what configure_gemini and model.generate_content can end in
GenOutcomes ==
    { [kind |-> k, parts |-> <<>>] :
        k \in {"config_error", "api_error", "no_candidates", "empty_content", "no_text"} }
    \cup { [kind |-> "parts", parts |-> p] : p \in ReplyParts }

ErrorResponse(code, why) ==
    [status |-> code, reply |-> None, email_sent |-> FALSE, error |-> why]

ParserIdle ==
    /\ reply = None
    /\ pc = "idle"
    /\ lines = <<>>
    /\ idx = 1
    /\ current_section = NoSection
    /\ sections = EmptySections
    /\ result = Idle
    /\ src = EmptySections
    /\ dropped = {}

ChatInit ==
    /\ ParserIdle
    /\ cpc = "start"
    /\ payload \in Payloads
    /\ gen = NoGen
    /\ chat_reply = None
    /\ parsed = Idle
    /\ db = NoDb
    /\ email_sent = FALSE
    /\ response = NoResponse
    /\ log = <<>>

\* lines 373-413: configure the model, generate, pick the candidate, join the parts
ChatGenerate ==
    /\ cpc = "start"
    /\ \E g \in GenOutcomes :
           /\ gen' = g
           /\ IF g.kind = "parts"
              THEN /\ chat_reply' = Strip(Join(g.parts, NL))
                   /\ cpc' = "parse"
                   /\ response' = response
              ELSE /\ chat_reply' = chat_reply
                   /\ cpc' = "responded"
                   /\ response' =
                          IF g.kind \in {"no_candidates", "empty_content", "no_text"}
                          THEN ErrorResponse(502, g.kind)
                          ELSE ErrorResponse(500, g.kind)
    /\ UNCHANGED <<payload, parsed, db, email_sent, log>>
    /\ UNCHANGED pvars

\* lines 416-421: strip the fields, parse the reply, decide on the save
ChatParse ==
    /\ cpc = "parse"
    /\ parsed' = ParseResponseSections(chat_reply)
    /\ log' = Append(log, "parse")
    /\ cpc' = IF StrippedField(payload.transcript) # EmptyStr THEN "db_connect" ELSE "email"
    /\ UNCHANGED <<payload, gen, chat_reply, db, email_sent, response>>
    /\ UNCHANGED pvars

\* an exception leaving save_to_database reaches chat's `except Exception`
SaveRaised(why) ==
    /\ response' = ErrorResponse(500, why)
    /\ cpc' = "responded"
    /\ log' = Append(log, "save_raised")

\* lines 310-313: get_db_connection, which returns None when connect fails
DbConnect ==
    /\ cpc = "db_connect"
    /\ \E connected \in BOOLEAN :
           IF connected
           THEN /\ db' = [NoDb EXCEPT !.connection = "open"]
                /\ cpc' = "db_cursor"
                /\ log' = Append(log, "save_started")
           ELSE /\ db' = [NoDb EXCEPT !.ret = "False"]
                /\ cpc' = "email"
                /\ log' = Append(log, "save_failed")
    /\ UNCHANGED <<payload, gen, chat_reply, parsed, email_sent, response>>
    /\ UNCHANGED pvars

\* line 316: cursor = connection.cursor()
DbCursor ==
    /\ cpc = "db_cursor"
    /\ \E ok \in BOOLEAN :
           IF ok
           THEN db' = [db EXCEPT !.cursor = "open"] /\ cpc' = "db_execute"
           ELSE db' = db /\ cpc' = "db_rollback"
    /\ UNCHANGED <<payload, gen, chat_reply, parsed, email_sent, response, log>>
    /\ UNCHANGED pvars

\* line 321: cursor.execute(insert_query, ...)
DbExecute ==
    /\ cpc = "db_execute"
    /\ \E ok \in BOOLEAN : cpc' = IF ok THEN "db_commit" ELSE "db_rollback"
    /\ UNCHANGED <<payload, gen, chat_reply, parsed, db, email_sent, response, log>>
    /\ UNCHANGED pvars

\* lines 322-324: connection.commit(); return True
DbCommit ==
    /\ cpc = "db_commit"
    /\ \E ok \in BOOLEAN :
           IF ok
           THEN db' = [db EXCEPT !.ret = "True"] /\ cpc' = "db_finally"
           ELSE db' = db /\ cpc' = "db_rollback"
    /\ UNCHANGED <<payload, gen, chat_reply, parsed, email_sent, response, log>>
    /\ UNCHANGED pvars

\* lines 325-328: except Error: connection.rollback(); return False
DbRollback ==
    /\ cpc = "db_rollback"
    /\ \E ok \in BOOLEAN :
           db' = IF ok THEN [db EXCEPT !.ret = "False"]
                 ELSE [db EXCEPT !.raised = "Error"]
    /\ cpc' = "db_finally"
    /\ UNCHANGED <<payload, gen, chat_reply, parsed, email_sent, response, log>>
    /\ UNCHANGED pvars

\* lines 329-332: finally: if connection.is_connected(): cursor.close(); connection.close()
DbFinally ==
    /\ cpc = "db_finally"
    /\ \E is_connected \in BOOLEAN :
           IF is_connected /\ db.cursor = "unbound"
           THEN /\ db' = [db EXCEPT !.raised = "UnboundLocalError"]
                /\ SaveRaised("UnboundLocalError")
           ELSE /\ db' = IF is_connected
                         THEN [db EXCEPT !.cursor = "closed", !.connection = "closed"]
                         ELSE db
                /\ IF db.raised # "none"
                   THEN SaveRaised(db.raised)
                   ELSE /\ cpc' = "email"
                        /\ log' = Append(log, IF db.ret = "True" THEN "save_ok"
                                              ELSE "save_failed")
                        /\ response' = response
    /\ UNCHANGED <<payload, gen, chat_reply, parsed, email_sent>>
    /\ UNCHANGED pvars

\* send_email_summary: True when sent, False on incomplete configuration or on
\* any exception (lines 201-305)
SendEmailOutcomes == {"sent", "config_incomplete", "smtp_error"}
SendEmailSummary(outcome) == outcome = "sent"

\* lines 424-429: the optional email
ChatEmail ==
    /\ cpc = "email"
    /\ IF StrippedField(payload.email) # EmptyStr
       THEN \E o \in SendEmailOutcomes :
                /\ email_sent' = SendEmailSummary(o)
                /\ log' = Append(log, IF SendEmailSummary(o) THEN "email_ok"
                                      ELSE "email_failed")
       ELSE /\ email_sent' = FALSE
            /\ log' = log
    /\ cpc' = "respond"
    /\ UNCHANGED <<payload, gen, chat_reply, parsed, db, response>>
    /\ UNCHANGED pvars

\* lines 431-434: the success response
ChatRespond ==
    /\ cpc = "respond"
    /\ response' = [status |-> 200, reply |-> chat_reply,
                    email_sent |-> email_sent, error |-> "none"]
    /\ cpc' = "responded"
    /\ UNCHANGED <<payload, gen, chat_reply, parsed, db, email_sent, log>>
    /\ UNCHANGED pvars

ChatNext ==
    \/ ChatGenerate
    \/ ChatParse
    \/ DbConnect
    \/ DbCursor
    \/ DbExecute
    \/ DbCommit
    \/ DbRollback
    \/ DbFinally
    \/ ChatEmail
    \/ ChatRespond

SpecChat == ChatInit /\ [][ChatNext]_vars

(***************************************************************************)
(* Properties of parse_response_sections                                   *)
(***************************************************************************)
\* the line indices that contributed text to section s
Contributors(s) ==
    UNION { { src[s][k][m] : m \in 1..Len(src[s][k]) } : k \in 1..Len(src[s]) }
AllContributors == UNION { Contributors(s) : s \in Sections }

\* the lines processed so far
ProcessedLines == IF pc \in {"loop", "done"} THEN 1..(idx - 1) ELSE {}

\* the stripped line the next Step processes
AtLine == Strip(lines[idx])
Stepping == pc = "loop" /\ idx <= Len(lines)

\* the text of a line after trimming and after removing its bullet or number marker
MarkerRemoved(original_line) ==
    LET line == Strip(original_line)
    IN  IF IsBullet(line) THEN Strip(LStripChars(line, BulletChars))
        ELSE IF IsNumbered(line) THEN Strip(SplitOnce(line, ".")[2])
        ELSE line
IsSentinelLine(original_line) == Lower(MarkerRemoved(original_line)) \in Sentinels

\* the returned fields are the joined accumulators
FieldsAreJoinedAccumulators ==
    pc = "done" /\ ~IsFalsy(reply) =>
        \A s \in Sections :
            IF sections[s] = <<>> THEN result[s] = None
            ELSE result[s] # None /\ Split(result[s], NL) = sections[s]

\* C1: a line that is a sentinel phrase (after trimming and removing its
\* marker) contributes no text to any output field: it is no entry of its own
\* and is not merged into another entry.
C1_SentinelNeverStored ==
    /\ \A j \in ProcessedLines : IsSentinelLine(lines[j]) => j \notin AllContributors
    /\ \A s \in Sections : \A k \in 1..Len(sections[s]) :
           Lower(sections[s][k]) \notin Sentinels

\* C2: a line processed while no recognized section is active appears in none
\* of the three output fields.
C2_InactiveContentDropped ==
    /\ \A j \in dropped : j \notin AllContributors
    /\ FieldsAreJoinedAccumulators
    /\ (\A j \in ProcessedLines : j \in dropped) => sections = EmptySections

\* C2 witness: a content line was dropped after an unrecognized header closed
\* a section that a recognized header had opened.
C2_Witness ==
    /\ pc = "done"
    /\ \E j \in dropped : \E i \in 1..(j - 1) :
           /\ HeaderKind(Strip(lines[i])) \in Sections
           /\ \E h \in (i + 1)..(j - 1) : StartsWith(Strip(lines[h]), <<"#">>)
           /\ HeaderKind(Strip(lines[j])) = "content"

\* a line that is no header, no bullet line and no numbered line
IsPlainLine(line) ==
    /\ line # <<>>
    /\ HeaderKind(line) = "content"
    /\ ~IsBullet(line)
    /\ ~IsNumbered(line)

\* C3: a plain line processed in an active section whose last entry does not
\* end in . ! ? : is appended to that entry after one space and the number of
\* entries is unchanged; when the last entry ends in such a mark the line
\* becomes a new entry, unless it is a sentinel phrase.
C3_ContinuationMerges ==
    [][ (/\ Stepping
         /\ current_section \in Sections
         /\ sections[current_section] # <<>>
         /\ IsPlainLine(AtLine))
        => LET acc == sections[current_section]
               last == acc[Len(acc)]
               after == sections'[current_section]
           IN  IF last[Len(last)] \notin SentenceEnd
               THEN /\ Len(after) = Len(acc)
                    /\ after = [acc EXCEPT ![Len(acc)] = last \o <<" ">> \o AtLine]
               ELSE IF Lower(AtLine) \in Sentinels
               THEN after = acc
               ELSE after = Append(acc, AtLine) ]_vars

\* C3 witness: an entry holds the text of two lines, merged with one space.
C3_Witness ==
    \E s \in Sections : \E k \in 1..Len(src[s]) :
        /\ Len(src[s][k]) = 2
        /\ sections[s][k] =
               MarkerRemoved(lines[src[s][k][1]]) \o <<" ">> \o Strip(lines[src[s][k][2]])

H_Summary == <<"#", "#", " ", "S", "u", "m", "m", "a", "r", "y">>
H_KeyDecisions ==
    <<"#", "#", " ", "K", "e", "y", " ", "D", "e", "c", "i", "s", "i", "o", "n", "s">>
H_ActionItems ==
    <<"#", "#", " ", "A", "c", "t", "i", "o", "n", " ", "I", "t", "e", "m", "s">>
HeaderOf(s) ==
    IF s = "summary" THEN H_Summary
    ELSE IF s = "key_decisions" THEN H_KeyDecisions
    ELSE H_ActionItems

\* a field's entries written back as '- ' bullets under the section's header
Reconstructed(s, field) ==
    LET entries == Split(field, NL)
    IN  Join(<<HeaderOf(s)>> \o [k \in 1..Len(entries) |-> <<"-", " ">> \o entries[k]], NL)

\* C4: parsing a non-empty field written back as bullets under its own header
\* yields the same entries for that section and leaves the other two absent.
C4_ReparseIdempotent ==
    pc = "done" =>
        \A s \in Sections :
            result[s] # None =>
                LET again == ParseResponseSections(Reconstructed(s, result[s]))
                IN  /\ again[s] = result[s]
                    /\ \A t \in Sections \ {s} : again[t] = None

\* C6: the entries of a section are in the order of the input lines that
\* created them, also when the section is revisited after another section.
C6_OrderPreserved ==
    /\ \A s \in Sections :
           /\ Len(src[s]) = Len(sections[s])
           /\ \A k \in 1..(Len(src[s]) - 1) : src[s][k][1] < src[s][k + 1][1]
           /\ \A k \in 1..Len(src[s]) :
                  \A m \in 1..(Len(src[s][k]) - 1) : src[s][k][m] < src[s][k][m + 1]
    /\ FieldsAreJoinedAccumulators

\* C6 witness: a section holds two different entries, created before and
\* after the header of another section was processed.
C6_Witness ==
    /\ pc = "done"
    /\ \E s \in Sections :
           /\ Len(src[s]) >= 2
           /\ sections[s][1] # sections[s][2]
           /\ \E h \in (src[s][1][1] + 1)..(src[s][2][1] - 1) :
                  HeaderKind(Strip(lines[h])) \in Sections \ {s}

\* the text after the first '.', trimmed
AfterFirstDot(line) == Strip(SubSeq(line, FirstIndex(line, ".") + 1, Len(line)))
DotInFirstThree(line) == \E i \in 1..3 : i <= Len(line) /\ line[i] = "."
EndsWith(s, p) == Len(p) <= Len(s) /\ SubSeq(s, Len(s) - Len(p) + 1, Len(s)) = p

\* C7 as stated: '3 people attended.' processed in an active section is taken
\* for a numbered item, so only the text after its first '.' (nothing) is
\* considered for storage and the line contributes to no entry.
C7_ThreePeopleIsNumbered ==
    \A j \in ProcessedLines : Strip(lines[j]) = L_ThreePeople => j \notin AllContributors

\* C7 amended: a line whose first character is a digit is a numbered item
\* exactly when a '.' is among its first three characters ('3.5 hours'): then
\* only the text after the first '.' is considered, stored as a new entry when
\* it is non-empty and no sentinel; otherwise ('3 people attended.') the whole
\* line is stored, as a new entry or merged into the last one.
C7_NumberedNeedsEarlyDot ==
    [][ (/\ Stepping
         /\ current_section \in Sections
         /\ AtLine # <<>>
         /\ HeaderKind(AtLine) = "content"
         /\ AtLine[1] \in Digits)
        => LET acc == sections[current_section]
               after == sections'[current_section]
           IN  IF DotInFirstThree(AtLine)
               THEN IF AfterFirstDot(AtLine) # <<>>
                       /\ Lower(AfterFirstDot(AtLine)) \notin Sentinels
                    THEN after = Append(acc, AfterFirstDot(AtLine))
                    ELSE after = acc
               ELSE /\ after # <<>>
                    /\ EndsWith(after[Len(after)], AtLine)
                    /\ \/ after = Append(acc, AtLine)
                       \/ /\ acc # <<>>
                          /\ after = [acc EXCEPT ![Len(acc)] = @ \o <<" ">> \o AtLine] ]_vars

\* C7 witness: '3.5 hours' was stored as '5 hours' and '3 people attended.'
\* was stored whole.
C7_Witness ==
    \E s \in Sections : \E k \in 1..Len(sections[s]) : \E n \in 1..Len(sections[s]) :
        /\ sections[s][k] = <<"5", " ", "h", "o", "u", "r", "s">>
        /\ Strip(lines[src[s][k][1]]) = L_Decimal
        /\ sections[s][n] = L_ThreePeople

\* C8: a None reply and the empty string return (None, None, None) and raise
\* nothing.
C8_NullAndEmpty ==
    /\ pc # "raised"
    /\ (pc = "done" /\ (reply = None \/ reply = EmptyStr)) =>
           \A s \in Sections : result[s] = None

\* C8 witness: the call with None has returned.
C8_Witness == pc = "done" /\ reply = None /\ \A s \in Sections : result[s] = None

\* old is new without its last entry, or new with a shorter last entry
Extends(old, new) ==
    \/ /\ Len(new) = Len(old) + 1
       /\ SubSeq(new, 1, Len(old)) = old
    \/ /\ Len(new) = Len(old)
       /\ old # <<>>
       /\ SubSeq(new, 1, Len(old) - 1) = SubSeq(old, 1, Len(old) - 1)
       /\ Len(new[Len(new)]) > Len(old[Len(old)])
       /\ StartsWith(new[Len(new)], old[Len(old)])

\* C9: processing one line changes at most the accumulator of the section
\* active for that line, and only by appending an entry or extending the last
\* one; header lines and empty lines change no accumulator, and an empty line
\* leaves the active section unchanged.
C9_FrameOfOneLine ==
    [][ /\ \A s \in Sections :
               sections'[s] # sections[s] =>
                   /\ Stepping
                   /\ s = current_section
                   /\ current_section' = current_section
                   /\ Extends(sections[s], sections'[s])
        /\ Stepping /\ AtLine = <<>> =>
               current_section' = current_section /\ sections' = sections
        /\ Stepping /\ AtLine # <<>> /\ HeaderKind(AtLine) # "content" =>
               sections' = sections ]_vars

\* C9 witness: a second section is active and has stored an entry while the
\* entries of the section visited before are still in place.
C9_Witness ==
    /\ current_section \in Sections
    /\ sections[current_section] # <<>>
    /\ \E s \in Sections \ {current_section} :
           /\ sections[s] # <<>>
           /\ src[s][Len(src[s])][1] < src[current_section][1][1]

\* C10: a non-empty trimmed line whose header text equals 'summary', contains
\* 'key' and 'decision', or starts with 'action' switches the active section
\* and is never stored, with or without '#', also behind a bullet marker.
C10_HeaderPrecedence ==
    [][ (Stepping /\ AtLine # <<>>) =>
            LET ht == HeaderText(AtLine)
                isSummary == ht = S_summary
                isKey == Contains(ht, S_key) /\ Contains(ht, S_decision)
                isAction == StartsWith(ht, S_action)
            IN  (isSummary \/ isKey \/ isAction) =>
                    /\ sections' = sections
                    /\ current_section' \in Sections
                    /\ isSummary => current_section' = "summary"
                    /\ ~isSummary /\ isKey => current_section' = "key_decisions"
                    /\ ~isSummary /\ ~isKey => current_section' = "action_items" ]_vars

\* C10 witness: the bullet '- The key decision was X' under Summary stored
\* nothing and made KeyDecisions active.
C10_Witness ==
    /\ pc = "loop"
    /\ idx = 3
    /\ HeaderKind(Strip(lines[1])) = "summary"
    /\ lines[2] = L_BulletKeyDecision
    /\ current_section = "key_decisions"
    /\ sections = EmptySections

(***************************************************************************)
(* Properties of the /api/chat handler                                     *)
(***************************************************************************)
\* C5: once the model has produced a non-empty reply, the handler returns the
\* success response carrying the reply and email_sent whatever the outcome of
\* save_to_database and send_email_summary, and the reply is parsed before
\* either of the two starts.
C5_DownstreamFailuresSwallowed ==
    /\ (cpc = "responded" /\ gen.kind = "parts" /\ chat_reply # EmptyStr) =>
           /\ response.status = 200
           /\ response.error = "none"
           /\ response.reply = chat_reply
           /\ response.email_sent = email_sent
    /\ \A i \in 1..Len(log) : log[i] # "parse" => \E j \in 1..(i - 1) : log[j] = "parse"

====
